---------------------------- MODULE Spec2Model ----------------------------
(***************************************************************************)
(* Subscription lifecycle of DeepSignal (src/app.py): the Flask handlers   *)
(* submit_email, submit_survey and validate_email over a MongoDB           *)
(* collection `subscribers`, the itsdangerous token codec and Flask-Mail.  *)
(*                                                                         *)
(* Every request is run by a worker.  A worker takes one atomic step per   *)
(* call that touches the collection or the mail gateway; the steps of      *)
(* different workers interleave freely.  Time is a millisecond clock.      *)
(***************************************************************************)
EXTENDS Integers, Sequences, FiniteSets, TLC

(***************************************************************************)
(* Bounds of the model.                                                    *)
(***************************************************************************)
NumProcs == 2
MaxRequests == 3

Procs == 1..NumProcs

(***************************************************************************)
(* Program constants.                                                      *)
(***************************************************************************)
max_age == 3600
SECRET_KEY == "dev-secret-key-change-in-production"
SALT == "email-validation"
None == -1

(***************************************************************************)
(* Strings are sequences of characters so that strip(), lower() and the    *)
(* regular expression of is_valid_email are computed, not assumed.         *)
(***************************************************************************)
Lower == {"a", "b", "x", "i", "o"}
Upper == {"A", "B", "X", "I", "O"}
Digits == {"0", "1"}
Letters == Lower \cup Upper
Whitespace == {" "}

ToLower(c) ==
    CASE c = "A" -> "a"
      [] c = "B" -> "b"
      [] c = "X" -> "x"
      [] c = "I" -> "i"
      [] c = "O" -> "o"
      [] OTHER -> c

RECURSIVE LStrip(_)
LStrip(s) ==
    IF s # <<>> /\ Head(s) \in Whitespace THEN LStrip(Tail(s)) ELSE s

RECURSIVE RStrip(_)
RStrip(s) ==
    IF s # <<>> /\ s[Len(s)] \in Whitespace
    THEN RStrip(SubSeq(s, 1, Len(s) - 1))
    ELSE s

Strip(s) == RStrip(LStrip(s))

LowerCase(s) == [i \in 1..Len(s) |-> ToLower(s[i])]

Normalize(raw) == LowerCase(Strip(raw))

LocalChars == Letters \cup Digits \cup {".", "_", "%", "+", "-"}
DomainChars == Letters \cup Digits \cup {".", "-"}

is_valid_email(email) ==
    \E at \in 1..Len(email) : \E dot \in 1..Len(email) :
        /\ at > 1
        /\ \A i \in 1..(at - 1) : email[i] \in LocalChars
        /\ email[at] = "@"
        /\ dot > at + 1
        /\ \A i \in (at + 1)..(dot - 1) : email[i] \in DomainChars
        /\ email[dot] = "."
        /\ Len(email) - dot >= 2
        /\ \A i \in (dot + 1)..Len(email) : email[i] \in Letters

AddrA == <<"a", "@", "x", ".", "i", "o">>
AddrB == <<"b", "@", "x", ".", "i", "o">>

RawEmails ==
    { AddrA,
      <<" ", "A", "@", "X", ".", "i", "o", " ">>,
      AddrB,
      <<" ">>,
      <<"a", "@", "x">> }

TagLists == { <<>>, <<"ai">> }

(***************************************************************************)
(* Token codec: URLSafeTimedSerializer(app.secret_key).  A token carries   *)
(* the payload, the issuance time in whole seconds and a signature over    *)
(* both under the secret key and the salt.                                 *)
(***************************************************************************)
Sign(key, salt, payload, ts) == <<key, salt, payload, ts>>

Seconds(ms) == ms \div 1000

(* Variant: the signature covers the millisecond instant.                  *)
Dumps_SignInstant(payload, salt, nowMs) ==
    [ payload |-> payload,
      ts      |-> Seconds(nowMs),
      sig     |-> Sign(SECRET_KEY, salt, payload, nowMs) ]

Dumps(payload, salt, nowMs) ==
    [ payload |-> payload,
      ts      |-> Seconds(nowMs),
      sig     |-> Sign(SECRET_KEY, salt, payload, Seconds(nowMs)) ]

generate_validation_token(email, nowMs) == Dumps(email, SALT, nowMs)

NoEmail == <<>>

(* Variant: the age of the token is not checked.                           *)
Loads_NoExpiry(token, salt, maxAge, nowMs) ==
    IF token.sig # Sign(SECRET_KEY, salt, token.payload, token.ts)
    THEN NoEmail
    ELSE token.payload

Loads(token, salt, maxAge, nowMs) ==
    IF token.sig # Sign(SECRET_KEY, salt, token.payload, token.ts)
    THEN NoEmail
    ELSE IF Seconds(nowMs) - token.ts > maxAge
         THEN NoEmail
         ELSE token.payload

verify_validation_token(token, nowMs) == Loads(token, SALT, max_age, nowMs)

Tamper(token, email) == [token EXCEPT !.payload = email]

Forge(email, nowMs) ==
    [ payload |-> email,
      ts      |-> Seconds(nowMs),
      sig     |-> Sign("guessed-key", SALT, email, Seconds(nowMs)) ]

(***************************************************************************)
(* The collection db.subscribers: documents in natural (insertion) order.  *)
(* A document is a record; a field removed by $unset leaves its domain.    *)
(* No index other than the one on _id is ever created, so insert_one       *)
(* accepts a second document with an email already present.                *)
(***************************************************************************)
Matching(coll, email) == { i \in 1..Len(coll) : coll[i].email = email }

Min(S) == CHOOSE i \in S : \A j \in S : i <= j

find_one(coll, email) ==
    IF Matching(coll, email) = {} THEN 0 ELSE Min(Matching(coll, email))

SetFields(doc, set) ==
    [ f \in DOMAIN doc \cup DOMAIN set |->
        IF f \in DOMAIN set THEN set[f] ELSE doc[f] ]

UnsetFields(doc, names) == [ f \in DOMAIN doc \ names |-> doc[f] ]

ApplyUpdate(doc, set, unset) == UnsetFields(SetFields(doc, set), unset)

update_one(coll, email, set, unset) ==
    LET i == find_one(coll, email) IN
    IF i = 0
    THEN [ coll |-> coll, matched_count |-> 0, modified_count |-> 0 ]
    ELSE [ coll |-> [coll EXCEPT ![i] = ApplyUpdate(coll[i], set, unset)],
           matched_count |-> 1,
           modified_count |->
               IF ApplyUpdate(coll[i], set, unset) = coll[i] THEN 0 ELSE 1 ]

insert_one(coll, doc) == Append(coll, doc)

RECURSIVE delete_one(_, _)
delete_one(coll, id) ==
    IF coll = <<>> THEN <<>>
    ELSE IF Head(coll)._id = id THEN Tail(coll)
    ELSE <<Head(coll)>> \o delete_one(Tail(coll), id)

(***************************************************************************)
(* State.                                                                  *)
(*   subscribers  the collection                                           *)
(*   clock        wall clock in milliseconds                               *)
(*   next_id      the next _id the driver generates                        *)
(*   proc         per worker: the request it runs, its locals, its reply;  *)
(*                issued_at is when its token was generated,               *)
(*                found is what find_one returned ("missing", "pending"    *)
(*                or "validated"), mail what the mail call did             *)
(*   inbox        the validation mails the gateway delivered: recipient,   *)
(*                token, and the instant the token was generated           *)
(*   welcome_calls  per email, how often send_welcome_email was called     *)
(*   requests     number of requests begun                                 *)
(***************************************************************************)
VARIABLES subscribers, clock, next_id, proc, inbox, welcome_calls, requests,
          _mongo_client, clients_created, mailed_ids, unique_index

vars == <<subscribers, clock, next_id, proc, inbox, welcome_calls, requests,
          _mongo_client, clients_created, mailed_ids, unique_index>>

NoToken == [ payload |-> NoEmail, ts |-> None, sig |-> <<>> ]

Idle ==
    [ pc          |-> "idle",
      op          |-> "none",
      email       |-> NoEmail,
      token       |-> NoToken,
      issued_at   |-> None,
      found       |-> "unread",
      mail        |-> "none",
      inserted_id |-> None,
      preferences |-> <<>>,
      outcome     |-> "none",
      status      |-> 0 ]

(* The process after import: no connection yet, nothing stored or sent.    *)
Construct ==
    /\ subscribers = <<>>
    /\ clock = 0
    /\ next_id = 1
    /\ proc = [p \in Procs |-> Idle]
    /\ inbox = {}
    /\ welcome_calls = <<>>
    /\ requests = 0
    /\ _mongo_client = None
    /\ clients_created = 0
    /\ mailed_ids = {}

(* The collection as the application leaves it: no index is ever created.  *)
Init == Construct /\ unique_index = FALSE

(* The same process against a collection given a unique index on email.    *)
InitIndexed == Construct /\ unique_index = TRUE

(* The instants at which the clock is read: two in the same second, one   *)
(* exactly max_age seconds later and one a second after that.             *)
Instants == {0, 1, max_age * 1000, (max_age + 1) * 1000}

Tick ==
    /\ \E t \in Instants : t > clock /\ clock' = t
    /\ UNCHANGED <<subscribers, next_id, proc, inbox, requests, welcome_calls,
                 _mongo_client, clients_created, mailed_ids, unique_index>>

utcnow == clock

Mail(email, token, issued_at) ==
    [ to |-> email, token |-> token, issued_at |-> issued_at ]

(* The handler returns: its reply is recorded and its locals are kept.     *)
Reply(p, locals, outcome, status) ==
    proc' = [proc EXCEPT ![p] =
                [locals EXCEPT !.pc = "done", !.outcome = outcome, !.status = status]]

Goto(p, locals, pc) == proc' = [proc EXCEPT ![p] = [locals EXCEPT !.pc = pc]]

(***************************************************************************)
(* get_db / get_mongo_client: the handle is tested, and when it is None a  *)
(* client is created and assigned, then pinged.  A worker that saw None    *)
(* goes on to create a client whatever happened to the handle meanwhile.   *)
(***************************************************************************)
FirstStoreStep(op) ==
    CASE op = "submit_email"   -> "se_find"
      [] op = "submit_survey"  -> "ss_update"
      [] op = "validate_email" -> "ve_find"

get_db(op) == IF _mongo_client = None THEN "connect" ELSE FirstStoreStep(op)

(* The handlers' except clauses: a JSON 500, or the failure page.          *)
ErrorStatus(op) == IF op = "validate_email" THEN 200 ELSE 500

GetMongoClientConnect(p) ==
    /\ proc[p].pc = "connect"
    /\ clients_created' = clients_created + 1
    /\ _mongo_client' = clients_created + 1
    /\ Goto(p, proc[p], "ping")
    /\ UNCHANGED <<subscribers, clock, next_id, inbox, requests, welcome_calls,
                   mailed_ids, unique_index>>

(* The ping succeeds or raises; raising leaves _mongo_client assigned.     *)
GetMongoClientPing(p) ==
    /\ proc[p].pc = "ping"
    /\ \/ Goto(p, proc[p], FirstStoreStep(proc[p].op))
       \/ Reply(p, proc[p], "Error", ErrorStatus(proc[p].op))
    /\ UNCHANGED <<subscribers, clock, next_id, inbox, requests, welcome_calls,
                   _mongo_client, clients_created, mailed_ids, unique_index>>

Accept(p) ==
    /\ proc[p].pc = "idle"
    /\ requests < MaxRequests
    /\ requests' = requests + 1

(***************************************************************************)
(* POST /submit_email                                                      *)
(***************************************************************************)
(* Variant: the format check is skipped.                                   *)
SubmitEmailBegin_NoFormatCheck(p, raw) ==
    /\ Accept(p)
    /\ LET email == Normalize(raw)
           locals == [Idle EXCEPT !.op = "submit_email", !.email = email] IN
       IF email = <<>>
       THEN Reply(p, locals, "EmailRequired", 400)
       ELSE Goto(p, locals, get_db("submit_email"))
    /\ UNCHANGED <<subscribers, clock, next_id, inbox, welcome_calls,
                 _mongo_client, clients_created, mailed_ids, unique_index>>

SubmitEmailBegin(p, raw) ==
    /\ Accept(p)
    /\ LET email == Normalize(raw)
           locals == [Idle EXCEPT !.op = "submit_email", !.email = email] IN
       IF email = <<>>
       THEN Reply(p, locals, "EmailRequired", 400)
       ELSE IF ~ is_valid_email(email)
            THEN Reply(p, locals, "InvalidEmail", 400)
            ELSE Goto(p, locals, get_db("submit_email"))
    /\ UNCHANGED <<subscribers, clock, next_id, inbox, welcome_calls,
                 _mongo_client, clients_created, mailed_ids, unique_index>>

(* Variant: a validated document is treated like a pending one.            *)
SubmitEmailFind_NoValidatedCheck(p) ==
    /\ proc[p].pc = "se_find"
    /\ LET i == find_one(subscribers, proc[p].email) IN
       IF i # 0
       THEN Goto(p, [proc[p] EXCEPT !.found =
                        IF subscribers[i].email_validated
                        THEN "validated" ELSE "pending"], "se_resend_mail")
       ELSE Goto(p, [proc[p] EXCEPT !.found = "missing"], "se_insert")
    /\ UNCHANGED <<subscribers, clock, next_id, inbox, requests, welcome_calls,
                 _mongo_client, clients_created, mailed_ids, unique_index>>

SubmitEmailFind(p) ==
    /\ proc[p].pc = "se_find"
    /\ LET i == find_one(subscribers, proc[p].email) IN
       IF i # 0
       THEN IF subscribers[i].email_validated
            THEN Reply(p, [proc[p] EXCEPT !.found = "validated"],
                       "AlreadySubscribed", 400)
            ELSE Goto(p, [proc[p] EXCEPT !.found = "pending"], "se_resend_mail")
       ELSE Goto(p, [proc[p] EXCEPT !.found = "missing"], "se_insert")
    /\ UNCHANGED <<subscribers, clock, next_id, inbox, requests, welcome_calls,
                 _mongo_client, clients_created, mailed_ids, unique_index>>

(* The documents a validation mail to this address speaks for.             *)
Addressed(email) == { subscribers[i]._id : i \in Matching(subscribers, email) }

(* Variant: the new token is stored before the mail is attempted.          *)
SubmitEmailResendMail_StoreFirst(p) ==
    /\ proc[p].pc = "se_resend_mail"
    /\ LET validation_token == generate_validation_token(proc[p].email, clock)
           locals == [proc[p] EXCEPT !.token = validation_token,
                                     !.issued_at = clock] IN
       /\ subscribers' =
             update_one(subscribers, proc[p].email,
                        [ validation_token |-> validation_token,
                          token_created_at |-> utcnow,
                          updated_at       |-> utcnow ],
                        {}).coll
       /\ \/ /\ inbox' = inbox \cup {Mail(proc[p].email, validation_token, clock)}
             /\ mailed_ids' = mailed_ids \cup Addressed(proc[p].email)
             /\ Goto(p, [locals EXCEPT !.mail = "sent"], "se_resend_update")
          \/ /\ UNCHANGED <<inbox, mailed_ids>>
             /\ Reply(p, [locals EXCEPT !.mail = "failed"], "MailFailure", 500)
    /\ UNCHANGED <<clock, next_id, requests, welcome_calls,
                 _mongo_client, clients_created, unique_index>>

(* generate_validation_token, then send_validation_email: True or False.   *)
SubmitEmailResendMail(p) ==
    /\ proc[p].pc = "se_resend_mail"
    /\ LET validation_token == generate_validation_token(proc[p].email, clock)
           locals == [proc[p] EXCEPT !.token = validation_token,
                                     !.issued_at = clock] IN
       \/ /\ inbox' = inbox \cup {Mail(proc[p].email, validation_token, clock)}
          /\ mailed_ids' = mailed_ids \cup Addressed(proc[p].email)
          /\ Goto(p, [locals EXCEPT !.mail = "sent"], "se_resend_update")
       \/ /\ UNCHANGED <<inbox, mailed_ids>>
          /\ Reply(p, [locals EXCEPT !.mail = "failed"], "MailFailure", 500)
    /\ UNCHANGED <<subscribers, clock, next_id, requests, welcome_calls,
                 _mongo_client, clients_created, unique_index>>

SubmitEmailResendUpdate(p) ==
    /\ proc[p].pc = "se_resend_update"
    /\ subscribers' =
          update_one(subscribers, proc[p].email,
                     [ validation_token |-> proc[p].token,
                       token_created_at |-> utcnow,
                       updated_at       |-> utcnow ],
                     {}).coll
    /\ Reply(p, proc[p], "ResentOk", 200)
    /\ UNCHANGED <<clock, next_id, inbox, requests, welcome_calls,
                 _mongo_client, clients_created, mailed_ids, unique_index>>

(* With a unique index on email, insert_one rejects a second document.     *)
DuplicateKey(coll, doc) == unique_index /\ Matching(coll, doc.email) # {}

(* insert_one raises DuplicateKeyError, which no handler catches as such:  *)
(* the request ends in the handler's generic except clause.                *)
SubmitEmailInsert(p) ==
    /\ proc[p].pc = "se_insert"
    /\ LET validation_token == generate_validation_token(proc[p].email, clock)
           subscriber_data ==
               [ _id                 |-> next_id,
                 email               |-> proc[p].email,
                 email_validated     |-> FALSE,
                 validation_token    |-> validation_token,
                 token_created_at    |-> utcnow,
                 content_preferences |-> <<>>,
                 signup_date         |-> utcnow,
                 updated_at          |-> utcnow,
                 validation_date     |-> None ] IN
       IF DuplicateKey(subscribers, subscriber_data)
       THEN /\ Reply(p, [proc[p] EXCEPT !.token = validation_token,
                                        !.issued_at = clock], "Error", 500)
            /\ UNCHANGED <<subscribers, next_id>>
       ELSE /\ subscribers' = insert_one(subscribers, subscriber_data)
            /\ next_id' = next_id + 1
            /\ Goto(p, [proc[p] EXCEPT !.token = validation_token,
                                       !.issued_at = clock,
                                       !.inserted_id = next_id], "se_create_mail")
    /\ UNCHANGED <<clock, inbox, requests, welcome_calls,
                 _mongo_client, clients_created, mailed_ids, unique_index>>

SubmitEmailCreateMail(p) ==
    /\ proc[p].pc = "se_create_mail"
    /\ \/ /\ inbox' = inbox \cup {Mail(proc[p].email, proc[p].token,
                                         proc[p].issued_at)}
          /\ mailed_ids' = mailed_ids \cup Addressed(proc[p].email)
          /\ Reply(p, [proc[p] EXCEPT !.mail = "sent"], "CreatedOk", 200)
       \/ /\ UNCHANGED <<inbox, mailed_ids>>
          /\ Goto(p, [proc[p] EXCEPT !.mail = "failed"], "se_delete")
    /\ UNCHANGED <<subscribers, clock, next_id, requests, welcome_calls,
                 _mongo_client, clients_created, unique_index>>

(* Variant: the inserted document is left in place.                        *)
SubmitEmailDelete_NoRollback(p) ==
    /\ proc[p].pc = "se_delete"
    /\ Reply(p, proc[p], "MailFailure", 500)
    /\ UNCHANGED <<subscribers, clock, next_id, inbox, requests, welcome_calls,
                 _mongo_client, clients_created, mailed_ids, unique_index>>

(* Variant: the compensating delete filters on the email, not on the _id.  *)
SubmitEmailDelete_ByEmail(p) ==
    /\ proc[p].pc = "se_delete"
    /\ LET i == find_one(subscribers, proc[p].email)
           id == IF i = 0 THEN None ELSE subscribers[i]._id IN
       /\ subscribers' = delete_one(subscribers, id)
       /\ mailed_ids' = mailed_ids \ {id}
    /\ Reply(p, proc[p], "MailFailure", 500)
    /\ UNCHANGED <<clock, next_id, inbox, requests, welcome_calls,
                 _mongo_client, clients_created, unique_index>>

SubmitEmailDelete(p) ==
    /\ proc[p].pc = "se_delete"
    /\ subscribers' = delete_one(subscribers, proc[p].inserted_id)
    /\ mailed_ids' = mailed_ids \ {proc[p].inserted_id}
    /\ Reply(p, proc[p], "MailFailure", 500)
    /\ UNCHANGED <<clock, next_id, inbox, requests, welcome_calls,
                 _mongo_client, clients_created, unique_index>>

(***************************************************************************)
(* POST /submit_survey                                                     *)
(***************************************************************************)
SubmitSurveyBegin(p, raw, preferences) ==
    /\ Accept(p)
    /\ LET email == Normalize(raw)
           locals == [Idle EXCEPT !.op = "submit_survey", !.email = email,
                                  !.preferences = preferences] IN
       IF email = <<>>
       THEN Reply(p, locals, "EmailRequired", 400)
       ELSE Goto(p, locals, get_db("submit_survey"))
    /\ UNCHANGED <<subscribers, clock, next_id, inbox, welcome_calls,
                 _mongo_client, clients_created, mailed_ids, unique_index>>

(* Variant: the update also rewrites signup_date.                          *)
SubmitSurveyUpdate_TouchesSignupDate(p) ==
    /\ proc[p].pc = "ss_update"
    /\ LET result == update_one(subscribers, proc[p].email,
                                [ content_preferences |-> proc[p].preferences,
                                  signup_date         |-> utcnow,
                                  updated_at          |-> utcnow ],
                                {}) IN
       /\ subscribers' = result.coll
       /\ IF result.modified_count > 0
          THEN Reply(p, proc[p], "Updated", 200)
          ELSE Reply(p, proc[p], "NotFound", 404)
    /\ UNCHANGED <<clock, next_id, inbox, requests, welcome_calls,
                 _mongo_client, clients_created, mailed_ids, unique_index>>

SubmitSurveyUpdate(p) ==
    /\ proc[p].pc = "ss_update"
    /\ LET result == update_one(subscribers, proc[p].email,
                                [ content_preferences |-> proc[p].preferences,
                                  updated_at          |-> utcnow ],
                                {}) IN
       /\ subscribers' = result.coll
       /\ IF result.modified_count > 0
          THEN Reply(p, proc[p], "Updated", 200)
          ELSE Reply(p, proc[p], "NotFound", 404)
    /\ UNCHANGED <<clock, next_id, inbox, requests, welcome_calls,
                 _mongo_client, clients_created, mailed_ids, unique_index>>

(***************************************************************************)
(* GET /validate/<token>                                                   *)
(***************************************************************************)
Other(email) == IF email = AddrA THEN AddrB ELSE AddrA

(* The links a visitor may open: those mailed, one of them altered to      *)
(* name the other address, and one signed with a guessed key.              *)
Mailed == { m.token : m \in inbox }

Links == Mailed \cup { Tamper(t, Other(t.payload)) : t \in Mailed }
                \cup { Forge(AddrA, clock) }

ValidateEmailBegin(p, token) ==
    /\ Accept(p)
    /\ LET email == verify_validation_token(token, clock)
           locals == [Idle EXCEPT !.op = "validate_email", !.token = token,
                                  !.email = email] IN
       IF email = NoEmail
       THEN Reply(p, locals, "InvalidOrExpiredToken", 200)
       ELSE Goto(p, locals, get_db("validate_email"))
    /\ UNCHANGED <<subscribers, clock, next_id, inbox, welcome_calls,
                 _mongo_client, clients_created, mailed_ids, unique_index>>

(* Variant: only the token stored in the document is accepted.            *)
ValidateEmailFind_StoredTokenOnly(p) ==
    /\ proc[p].pc = "ve_find"
    /\ LET i == find_one(subscribers, proc[p].email) IN
       IF i = 0
       THEN Reply(p, [proc[p] EXCEPT !.found = "missing"], "NotFound", 200)
       ELSE IF subscribers[i].email_validated
            THEN Reply(p, [proc[p] EXCEPT !.found = "validated"],
                       "AlreadyValidated", 200)
            ELSE IF subscribers[i].validation_token # proc[p].token
                 THEN Reply(p, [proc[p] EXCEPT !.found = "pending"],
                            "InvalidOrExpiredToken", 200)
                 ELSE Goto(p, [proc[p] EXCEPT !.found = "pending",
                                              !.preferences =
                                                  subscribers[i].content_preferences],
                           "ve_update")
    /\ UNCHANGED <<subscribers, clock, next_id, inbox, requests, welcome_calls,
                 _mongo_client, clients_created, mailed_ids, unique_index>>

(* Variant: an already validated document is validated again.              *)
ValidateEmailFind_NoShortcut(p) ==
    /\ proc[p].pc = "ve_find"
    /\ LET i == find_one(subscribers, proc[p].email) IN
       IF i = 0
       THEN Reply(p, [proc[p] EXCEPT !.found = "missing"], "NotFound", 200)
       ELSE Goto(p, [proc[p] EXCEPT !.found =
                        IF subscribers[i].email_validated
                        THEN "validated" ELSE "pending",
                                    !.preferences =
                                        subscribers[i].content_preferences],
                 "ve_update")
    /\ UNCHANGED <<subscribers, clock, next_id, inbox, requests, welcome_calls,
                 _mongo_client, clients_created, mailed_ids, unique_index>>

ValidateEmailFind(p) ==
    /\ proc[p].pc = "ve_find"
    /\ LET i == find_one(subscribers, proc[p].email) IN
       IF i = 0
       THEN Reply(p, [proc[p] EXCEPT !.found = "missing"], "NotFound", 200)
       ELSE IF subscribers[i].email_validated
            THEN Reply(p, [proc[p] EXCEPT !.found = "validated"],
                       "AlreadyValidated", 200)
            ELSE Goto(p, [proc[p] EXCEPT !.found = "pending",
                                         !.preferences =
                                             subscribers[i].content_preferences],
                      "ve_update")
    /\ UNCHANGED <<subscribers, clock, next_id, inbox, requests, welcome_calls,
                 _mongo_client, clients_created, mailed_ids, unique_index>>

ValidateEmailUpdate(p) ==
    /\ proc[p].pc = "ve_update"
    /\ subscribers' =
          update_one(subscribers, proc[p].email,
                     [ email_validated |-> TRUE,
                       validation_date |-> utcnow,
                       updated_at      |-> utcnow ],
                     {"validation_token", "token_created_at"}).coll
    /\ Goto(p, proc[p], "ve_welcome")
    /\ UNCHANGED <<clock, next_id, inbox, requests, welcome_calls,
                 _mongo_client, clients_created, mailed_ids, unique_index>>

(* Variant: a failed welcome mail reverts the validation.                  *)
ValidateEmailWelcome_Rollback(p) ==
    /\ proc[p].pc = "ve_welcome"
    /\ welcome_calls' =
          IF proc[p].email \in DOMAIN welcome_calls
          THEN [welcome_calls EXCEPT ![proc[p].email] = @ + 1]
          ELSE welcome_calls @@ (proc[p].email :> 1)
    /\ \/ /\ Reply(p, [proc[p] EXCEPT !.mail = "sent"], "Validated", 200)
          /\ subscribers' = subscribers
       \/ /\ Reply(p, [proc[p] EXCEPT !.mail = "failed"], "MailFailure", 500)
          /\ subscribers' =
                update_one(subscribers, proc[p].email,
                           [ email_validated |-> FALSE,
                             validation_date |-> None,
                             updated_at      |-> utcnow ],
                           {}).coll
    /\ UNCHANGED <<clock, next_id, inbox, requests,
                 _mongo_client, clients_created, mailed_ids, unique_index>>

(* send_welcome_email returns True or False; the handler ignores which.    *)
ValidateEmailWelcome(p) ==
    /\ proc[p].pc = "ve_welcome"
    /\ welcome_calls' =
          IF proc[p].email \in DOMAIN welcome_calls
          THEN [welcome_calls EXCEPT ![proc[p].email] = @ + 1]
          ELSE welcome_calls @@ (proc[p].email :> 1)
    /\ \E sent \in {"sent", "failed"} :
          Reply(p, [proc[p] EXCEPT !.mail = sent], "Validated", 200)
    /\ UNCHANGED <<subscribers, clock, next_id, inbox, requests,
                 _mongo_client, clients_created, mailed_ids, unique_index>>

(* The reply has been sent; the worker is free again.                      *)
Return(p) ==
    /\ proc[p].pc = "done"
    /\ proc' = [proc EXCEPT ![p] = Idle]
    /\ UNCHANGED <<subscribers, clock, next_id, inbox, requests, welcome_calls,
                 _mongo_client, clients_created, mailed_ids, unique_index>>

Begin(p) ==
    \/ \E raw \in RawEmails : SubmitEmailBegin(p, raw)
    \/ \E raw \in RawEmails : \E tags \in TagLists : SubmitSurveyBegin(p, raw, tags)
    \/ \E token \in Links : ValidateEmailBegin(p, token)

Step(p) ==
    \/ GetMongoClientConnect(p)
    \/ GetMongoClientPing(p)
    \/ SubmitEmailFind(p)
    \/ SubmitEmailResendMail(p)
    \/ SubmitEmailResendUpdate(p)
    \/ SubmitEmailInsert(p)
    \/ SubmitEmailCreateMail(p)
    \/ SubmitEmailDelete(p)
    \/ SubmitSurveyUpdate(p)
    \/ ValidateEmailFind(p)
    \/ ValidateEmailUpdate(p)
    \/ ValidateEmailWelcome(p)
    \/ Return(p)

Next ==
    \/ Tick
    \/ \E p \in Procs : Begin(p)
    \/ \E p \in Procs : Step(p)

Spec == Init /\ [][Next]_vars

(* One request at a time: a request begins only when no other is running.  *)
Quiescent == \A q \in Procs : proc[q].pc = "idle"

NextSeq ==
    \/ Tick
    \/ \E p \in Procs : Quiescent /\ Begin(p)
    \/ \E p \in Procs : Step(p)

SpecSeq == Init /\ [][NextSeq]_vars

(* Concurrent requests against a collection with a unique index on email.  *)
SpecIndexed == InitIndexed /\ [][Next]_vars

(***************************************************************************)
(* Signups only, one at a time, with a wider range of submitted strings.   *)
(***************************************************************************)
MalformedEmails ==
    { <<>>,
      <<" ">>,
      <<"a", "@", "x">>,
      <<"a", "x", ".", "i", "o">>,
      <<"@", "x", ".", "i", "o">>,
      <<"a", "@", ".", "i", "o">>,
      <<"a", "@", "x", ".", "i">>,
      <<"a", "@", "x", ".", "i", "0">>,
      <<"a", " ", "@", "x", ".", "i", "o">>,
      <<"a", "@", "@", "x", ".", "i", "o">>,
      <<" ", "A", "@", "X", ".", " ">> }

FormEmails ==
    MalformedEmails \cup
    { AddrA,
      <<" ", "A", "@", "X", ".", "i", "o", " ">>,
      <<"a", "+", "1", "@", "x", "-", "y", ".", "i", "o">> }

NextSignup ==
    \/ Tick
    \/ \E p \in Procs : \E raw \in FormEmails :
          Quiescent /\ SubmitEmailBegin(p, raw)
    \/ \E p \in Procs : GetMongoClientConnect(p)
    \/ \E p \in Procs : GetMongoClientPing(p)
    \/ \E p \in Procs : SubmitEmailFind(p)
    \/ \E p \in Procs : SubmitEmailResendMail(p)
    \/ \E p \in Procs : SubmitEmailResendUpdate(p)
    \/ \E p \in Procs : SubmitEmailInsert(p)
    \/ \E p \in Procs : SubmitEmailCreateMail(p)
    \/ \E p \in Procs : SubmitEmailDelete(p)
    \/ \E p \in Procs : Return(p)

SpecSignup == Init /\ [][NextSignup]_vars

(***************************************************************************)
(* Concurrent signups and confirmations for one address, the clock held   *)
(* still: every interleaving of their steps and of mail failures.          *)
(***************************************************************************)
NextRace ==
    \/ \E p \in Procs : SubmitEmailBegin(p, AddrA)
    \/ \E p \in Procs : \E token \in Mailed : ValidateEmailBegin(p, token)
    \/ \E p \in Procs : GetMongoClientConnect(p)
    \/ \E p \in Procs : GetMongoClientPing(p)
    \/ \E p \in Procs : SubmitEmailFind(p)
    \/ \E p \in Procs : SubmitEmailResendMail(p)
    \/ \E p \in Procs : SubmitEmailResendUpdate(p)
    \/ \E p \in Procs : SubmitEmailInsert(p)
    \/ \E p \in Procs : SubmitEmailCreateMail(p)
    \/ \E p \in Procs : SubmitEmailDelete(p)
    \/ \E p \in Procs : ValidateEmailFind(p)
    \/ \E p \in Procs : ValidateEmailUpdate(p)
    \/ \E p \in Procs : ValidateEmailWelcome(p)
    \/ \E p \in Procs : Return(p)

SpecRace == Init /\ [][NextRace]_vars

(***************************************************************************)
(* Vocabulary of the properties.                                           *)
(***************************************************************************)
Addresses == {AddrA, AddrB}

Docs(email) == { subscribers[i] : i \in Matching(subscribers, email) }

Validated(email) == \E d \in Docs(email) : d.email_validated

Pending(email) == Docs(email) # {} /\ ~ Validated(email)

HasTokenFields(d) ==
    "validation_token" \in DOMAIN d \/ "token_created_at" \in DOMAIN d

Done(p, op) == proc[p].pc = "done" /\ proc[p].op = op

(***************************************************************************)
(* C1.  In every reachable state the collection holds at most one          *)
(* document per normalized email, also when two signups for the same email *)
(* run concurrently.                                                       *)
(***************************************************************************)
C1_OneRecordPerEmail ==
    \A e \in Addresses : Cardinality(Matching(subscribers, e)) <= 1

(***************************************************************************)
(* C2.  Validation is one-way: once an email has a document with           *)
(* email_validated = true, it has one in every later state.                *)
(***************************************************************************)
C2_ValidationOneWay ==
    [][\A e \in Addresses : Validated(e) => Validated(e)']_vars

(***************************************************************************)
(* C3.  A document with email_validated = true has neither a               *)
(* validation_token nor a token_created_at field.                          *)
(***************************************************************************)
C3_NoTokenOnceValidated ==
    \A i \in 1..Len(subscribers) :
        subscribers[i].email_validated => ~ HasTokenFields(subscribers[i])

Moved(p) == proc'[p] # proc[p]

IssuedFor(token) == { m.to : m \in { n \in inbox : n.token = token } }

(***************************************************************************)
(* C4.  A signup that found no document and whose validation mail failed   *)
(* reports MailFailure (500) and, once it has returned, the collection     *)
(* holds no document for its email.                                        *)
(***************************************************************************)
C4_MailFailureRollsBack ==
    \A p \in Procs :
        (Done(p, "submit_email") /\ proc[p].found = "missing"
                                /\ proc[p].mail = "failed")
        => /\ proc[p].outcome = "MailFailure"
           /\ proc[p].status = 500
           /\ Docs(proc[p].email) = {}

C4_Witness ==
    \E p \in Procs :
        /\ Done(p, "submit_email")
        /\ proc[p].found = "missing"
        /\ proc[p].mail = "failed"
        /\ proc[p].inserted_id # None
        /\ Docs(proc[p].email) = {}

(***************************************************************************)
(* C5.  A confirmation with a mailed token still inside the window ends    *)
(* Validated or AlreadyValidated.  If it found the document pending it     *)
(* reports Validated and leaves it validated without validation_token; if  *)
(* it found it validated it reports AlreadyValidated and no step of it     *)
(* changes the collection.                                                 *)
(***************************************************************************)
C5_ConfirmEndToEnd ==
    /\ [](\A p \in Procs :
            (Done(p, "validate_email") /\ proc[p].token \in Mailed
                /\ Seconds(clock) - proc[p].token.ts <= max_age)
            => proc[p].outcome \in {"Validated", "AlreadyValidated"})
    /\ [](\A p \in Procs :
            (Done(p, "validate_email") /\ proc[p].found = "pending")
            => /\ proc[p].outcome = "Validated"
               /\ Docs(proc[p].email) # {}
               /\ \A d \in Docs(proc[p].email) :
                      d.email_validated /\ "validation_token" \notin DOMAIN d)
    /\ [](\A p \in Procs :
            (Done(p, "validate_email") /\ proc[p].found = "validated")
            => proc[p].outcome = "AlreadyValidated" /\ proc[p].status = 200)
    /\ [][\A p \in Procs :
            (Moved(p) /\ proc'[p].op = "validate_email"
                      /\ proc'[p].found = "validated")
            => subscribers' = subscribers]_vars

C5_Witness ==
    \E p \in Procs :
        /\ Done(p, "validate_email")
        /\ proc[p].token \in Mailed
        /\ proc[p].outcome = "AlreadyValidated"
        /\ \A d \in Docs(proc[p].email) :
               d.email_validated /\ "validation_token" \notin DOMAIN d

C7_ResendTokenDiffers ==
    [][\A p \in Procs :
        (Moved(p) /\ proc'[p].op = "submit_email"
                  /\ proc'[p].outcome = "ResentOk")
        => /\ Cardinality(Matching(subscribers', proc'[p].email)) = 1
           /\ \A i \in Matching(subscribers, proc'[p].email) :
                  subscribers'[i].validation_token
                      # subscribers[i].validation_token]_vars

(***************************************************************************)
(* C7 as amended.  A second signup for a pending email, both mails         *)
(* succeeding, leaves exactly one document and reports ResentOk; two       *)
(* validation mails to the same email carry different tokens exactly when  *)
(* their tokens were generated in different clock seconds.                 *)
(***************************************************************************)
C7_ResendTokenDiffersBySecond ==
    /\ [][\A p \in Procs :
            (Moved(p) /\ proc'[p].op = "submit_email"
                      /\ proc'[p].outcome = "ResentOk")
            => /\ Cardinality(Matching(subscribers', proc'[p].email)) = 1
               /\ \A i \in Matching(subscribers, proc'[p].email) :
                      subscribers'[i].validation_token = proc'[p].token]_vars
    /\ [](\A m \in inbox : \A n \in inbox :
            m.to = n.to
            => (m.token # n.token
                <=> Seconds(m.issued_at) # Seconds(n.issued_at)))

C7_Witness ==
    \E p \in Procs :
        /\ Done(p, "submit_email")
        /\ proc[p].outcome = "ResentOk"
        /\ \E m \in inbox :
               /\ m.to = proc[p].email
               /\ m.issued_at # proc[p].issued_at
               /\ m.token = proc[p].token

(***************************************************************************)
(* C8.  A signup that found a pending document and whose validation mail   *)
(* failed reports MailFailure (500), and no step of it changes any         *)
(* document.                                                               *)
(***************************************************************************)
C8_ResendFailureLeavesRecord ==
    /\ [](\A p \in Procs :
            (Done(p, "submit_email") /\ proc[p].found = "pending"
                                    /\ proc[p].mail = "failed")
            => proc[p].outcome = "MailFailure" /\ proc[p].status = 500)
    /\ [][\A p \in Procs :
            (Moved(p) /\ proc'[p].op = "submit_email"
                      /\ proc'[p].found \in {"unread", "pending"}
                      /\ proc'[p].mail # "sent")
            => subscribers' = subscribers]_vars

C8_Witness ==
    \E p \in Procs :
        /\ Done(p, "submit_email")
        /\ proc[p].found = "pending"
        /\ proc[p].mail = "failed"
        /\ proc[p].outcome = "MailFailure"
        /\ Pending(proc[p].email)

(***************************************************************************)
(* C9.  A signup for an email whose document is validated is answered      *)
(* AlreadySubscribed (400): it generates no token, sends no mail, and      *)
(* creates, changes or deletes no document.                                *)
(***************************************************************************)
C9_ValidatedSignupRejected ==
    /\ [][\A p \in Procs :
            (Moved(p) /\ proc[p].pc = "se_find" /\ Validated(proc[p].email))
            => proc'[p].found = "validated"]_vars
    /\ [](\A p \in Procs :
            (proc[p].op = "submit_email" /\ proc[p].found = "validated")
            => /\ proc[p].pc = "done"
               /\ proc[p].outcome = "AlreadySubscribed"
               /\ proc[p].status = 400
               /\ proc[p].token = NoToken
               /\ proc[p].mail = "none"
               /\ proc[p].inserted_id = None)
    /\ [][\A p \in Procs :
            (Moved(p) /\ proc'[p].op = "submit_email"
                      /\ proc'[p].found \in {"unread", "validated"})
            => UNCHANGED <<subscribers, inbox, next_id>>]_vars

C9_Witness ==
    \E p \in Procs :
        /\ Done(p, "submit_email")
        /\ Validated(proc[p].email)
        /\ proc[p].outcome = "AlreadySubscribed"

(***************************************************************************)
(* C10.  A preference update reports NotFound when the email has no        *)
(* document; when it has one, pending or validated and whatever tags it    *)
(* holds, the update stores the submitted tags and reports Updated.        *)
(***************************************************************************)
C10_UpdatePreferencesOutcome ==
    \A p \in Procs :
        (Done(p, "submit_survey") /\ proc[p].email # NoEmail)
        => IF Docs(proc[p].email) = {}
           THEN proc[p].outcome = "NotFound" /\ proc[p].status = 404
           ELSE /\ proc[p].outcome = "Updated"
                /\ proc[p].status = 200
                /\ \A d \in Docs(proc[p].email) :
                       d.content_preferences = proc[p].preferences

(***************************************************************************)
(* C11.  A confirmation that flipped a pending document and whose welcome  *)
(* mail failed still reports Validated, and the document stays validated   *)
(* with validation_date set: the welcome step changes no document.         *)
(***************************************************************************)
C11_WelcomeFailureKeepsValidation ==
    /\ [](\A p \in Procs :
            (Done(p, "validate_email") /\ proc[p].found = "pending"
                                      /\ proc[p].mail = "failed")
            => /\ proc[p].outcome = "Validated"
               /\ proc[p].status = 200
               /\ Docs(proc[p].email) # {}
               /\ \A d \in Docs(proc[p].email) :
                      d.email_validated /\ d.validation_date # None)
    /\ [][\A p \in Procs :
            (Moved(p) /\ proc[p].pc = "ve_welcome")
            => subscribers' = subscribers]_vars

C11_Witness ==
    \E p \in Procs :
        /\ Done(p, "validate_email")
        /\ proc[p].found = "pending"
        /\ proc[p].mail = "failed"
        /\ proc[p].outcome = "Validated"
        /\ Validated(proc[p].email)

(***************************************************************************)
(* C12.  validation_date is None while a document is unvalidated and,      *)
(* once set, keeps its value in every later state of that document.        *)
(***************************************************************************)
C12_ValidationDateImmutable ==
    /\ [](\A i \in 1..Len(subscribers) :
            ~ subscribers[i].email_validated
            => subscribers[i].validation_date = None)
    /\ [][\A i \in 1..Len(subscribers) : \A j \in 1..Len(subscribers') :
            (subscribers'[j]._id = subscribers[i]._id
                /\ subscribers[i].validation_date # None)
            => subscribers'[j].validation_date
                   = subscribers[i].validation_date]_vars

(***************************************************************************)
(* C13.  A mailed token still inside the window passes verification and    *)
(* validates a pending document also after a later signup has mailed a     *)
(* different token and stored it: acceptance does not look at the stored   *)
(* validation_token.                                                       *)
(***************************************************************************)
Superseded(token) ==
    \E n \in inbox : \E m \in inbox :
        /\ n.token = token
        /\ m.to = n.to
        /\ m.token # token
        /\ m.issued_at > n.issued_at

C13_NoRevocation ==
    /\ [][\A p \in Procs :
            (Moved(p) /\ proc[p].pc = "idle"
                      /\ proc'[p].op = "validate_email"
                      /\ proc'[p].token \in Mailed
                      /\ Seconds(clock) - proc'[p].token.ts <= max_age)
            => proc'[p].pc = "ve_find"]_vars
    /\ [][\A p \in Procs :
            (Moved(p) /\ proc[p].pc = "ve_find" /\ Pending(proc[p].email))
            => proc'[p].pc = "ve_update"]_vars
    /\ [](\A p \in Procs :
            (Done(p, "validate_email") /\ proc[p].found = "pending"
                                      /\ Superseded(proc[p].token))
            => proc[p].outcome = "Validated" /\ Validated(proc[p].email))

C13_Witness ==
    \E p \in Procs :
        /\ Done(p, "validate_email")
        /\ Superseded(proc[p].token)
        /\ proc[p].found = "pending"
        /\ proc[p].outcome = "Validated"
        /\ Validated(proc[p].email)

(***************************************************************************)
(* C14.  The preference update changes nothing but content_preferences     *)
(* and updated_at of the document it matched; every other field of it and  *)
(* every other document stay as they were.                                 *)
(***************************************************************************)
C14_UpdatePreferencesFrame ==
    [][\A p \in Procs :
        (Moved(p) /\ proc[p].pc = "ss_update")
        => /\ Len(subscribers') = Len(subscribers)
           /\ \A i \in 1..Len(subscribers) :
                  IF i = find_one(subscribers, proc[p].email)
                  THEN /\ DOMAIN subscribers'[i] = DOMAIN subscribers[i]
                       /\ \A f \in DOMAIN subscribers[i]
                                  \ {"content_preferences", "updated_at"} :
                              subscribers'[i][f] = subscribers[i][f]
                  ELSE subscribers'[i] = subscribers[i]]_vars

C14_Witness ==
    \E p \in Procs :
        /\ Done(p, "submit_survey")
        /\ proc[p].outcome = "Updated"
        /\ proc[p].preferences # <<>>
        /\ \E d \in Docs(proc[p].email) :
               /\ d.email_validated
               /\ d.validation_date # None
               /\ d.content_preferences = proc[p].preferences

(***************************************************************************)
(* C15.  A signup whose trimmed, lower-cased email is empty or fails the   *)
(* pattern is answered 400 in its first step, which changes neither the    *)
(* collection nor the mail sent nor the id counter and issues no token;    *)
(* no document and no mail ever carries such an address.                   *)
(***************************************************************************)
Rejected(email) == email = <<>> \/ ~ is_valid_email(email)

C16_DuplicateKeyRechecks ==
    [][\A p \in Procs :
        (Moved(p) /\ proc[p].pc = "se_insert"
                  /\ unique_index
                  /\ Matching(subscribers, proc[p].email) # {})
        => /\ proc'[p].outcome # "Error"
           /\ \/ proc'[p].pc \in {"se_find", "se_resend_mail"}
              \/ proc'[p].outcome = "AlreadySubscribed"]_vars

(***************************************************************************)
(* C17.  Whenever no request is in flight, every unvalidated document has  *)
(* had a validation mail delivered to its address since it was inserted.   *)
(***************************************************************************)
C17_NoStrandedPending ==
    Quiescent =>
        \A i \in 1..Len(subscribers) :
            ~ subscribers[i].email_validated
            => subscribers[i]._id \in mailed_ids

C17_Witness ==
    /\ Quiescent
    /\ Len(subscribers) = 2
    /\ subscribers[1].email = subscribers[2].email
    /\ ~ subscribers[2].email_validated
    /\ subscribers[2]._id \in mailed_ids
    /\ next_id > 3

(***************************************************************************)
(* C18.  At most one client is ever created, and a request that fails on   *)
(* the first ping leaves _mongo_client unset.                              *)
(***************************************************************************)
C18_ConnectionOnce ==
    /\ [](clients_created <= 1)
    /\ [][\A p \in Procs :
            (Moved(p) /\ proc[p].pc = "ping" /\ proc'[p].outcome = "Error")
            => _mongo_client' = None]_vars

(***************************************************************************)
(* C19.  At the step in which a request returns CreatedOk, ResentOk or     *)
(* Validated, the collection holds a document for its email, and for       *)
(* Validated a validated one.                                              *)
(***************************************************************************)
C19_SuccessMeansRecord ==
    [][\A p \in Procs :
        (proc[p].pc # "done" /\ proc'[p].pc = "done"
            /\ proc'[p].outcome \in {"CreatedOk", "ResentOk", "Validated"})
        => /\ Matching(subscribers', proc'[p].email) # {}
           /\ proc'[p].outcome = "Validated"
              => \E i \in Matching(subscribers', proc'[p].email) :
                     subscribers'[i].email_validated]_vars

(***************************************************************************)
(* C20.  send_welcome_email is called at most once per email.              *)
(***************************************************************************)
C20_WelcomeAtMostOnce ==
    \A e \in DOMAIN welcome_calls : welcome_calls[e] <= 1

=============================================================================
